---- MODULE Spec2Model ----
(***************************************************************************)
(* Connection lifecycle of the dbt SQLite adapter                          *)
(* (dbt/adapters/sqlite/connections.py): open() with its parse, connect    *)
(* and attach sequence, cancel(), the exception_handler() scope and        *)
(* close().  One connection object is shared by the threads of Threads;    *)
(* every thread runs the methods statement by statement.                   *)
(*                                                                         *)
(* Python strings are sequences of one-character strings, so that          *)
(* str.split is computed and not assumed.  The engine (sqlite3) is a       *)
(* black box: each of its calls either succeeds or raises sqlite3.Error    *)
(* with some message.                                                      *)
(***************************************************************************)
EXTENDS Integers, Sequences, FiniteSets, TLC

(* ---------------- bounds ---------------- *)
\* number of ';'-separated entries of a schema_paths string
MaxEntries == 3
\* number of engine sessions sqlite3.connect may create in one behaviour
MaxSessions == 2

Threads == {"t1", "t2"}

(* ---------------- strings ---------------- *)
Main == <<"m", "a", "i", "n">>
Logs == <<"l", "o", "g", "s">>

\* the entries the schema_paths strings are built from
Entries ==
    { Main \o <<"=">> \o <<"a">>,              \* main=a
      Logs \o <<"=">> \o <<"b">>,              \* logs=b
      Logs \o <<"=">> \o <<"c", "=", "d">>,    \* logs=c=d
      <<"=">> \o <<"e">>,                      \* =e     (empty name)
      Logs }                                   \* logs   (no '=')

RECURSIVE Join(_, _)
Join(es, sep) ==
    IF Len(es) = 0 THEN <<>>
    ELSE IF Len(es) = 1 THEN es[1]
    ELSE es[1] \o <<sep>> \o Join(Tail(es), sep)

\* the strings of up to MaxEntries entries, no entry written twice
SchemaPathsInputs ==
    { Join(es, ";") :
        es \in { f \in UNION { [1..n -> Entries] : n \in 1..MaxEntries } :
                   \A i, j \in DOMAIN f : i # j => f[i] # f[j] } }

\* str.split(sep): the pieces between the separators, at least one piece
RECURSIVE SplitFrom(_, _, _, _)
SplitFrom(s, sep, i, cur) ==
    IF i > Len(s) THEN <<cur>>
    ELSE IF s[i] = sep THEN <<cur>> \o SplitFrom(s, sep, i + 1, <<>>)
    ELSE SplitFrom(s, sep, i + 1, Append(cur, s[i]))

Split(s, sep) == SplitFrom(s, sep, 1, <<>>)

\* variant of SplitOnce: the split is at the last separator
SplitOnceAtLast(s, sep) ==
    LET hits == { i \in 1..Len(s) : s[i] = sep }
    IN  IF hits = {} THEN <<s>>
        ELSE LET k == CHOOSE i \in hits : \A j \in hits : j <= i
             IN  <<SubSeq(s, 1, k - 1), SubSeq(s, k + 1, Len(s))>>

\* str.split(sep, 1): at most one split, at the first separator
SplitOnce(s, sep) ==
    LET hits == { i \in 1..Len(s) : s[i] = sep }
    IN  IF hits = {} THEN <<s>>
        ELSE LET k == CHOOSE i \in hits : \A j \in hits : i <= j
             IN  <<SubSeq(s, 1, k - 1), SubSeq(s, k + 1, Len(s))>>

(* ---------------- the parse loop of open(), lines 47-50 ---------------- *)
EmptyDict == [k \in {} |-> <<>>]

\* variant of DictSet: a key that is already there keeps its value
DictSetKeepsFirst(d, k, v) ==
    [x \in (DOMAIN d) \cup {k} |-> IF x \in DOMAIN d THEN d[x] ELSE v]

\* schema_paths[schema] = path
DictSet(d, k, v) == [x \in (DOMAIN d) \cup {k} |-> IF x = k THEN v ELSE d[x]]

\* the dict after the loop ran over entries i..Len(entries); ok = FALSE when
\* the tuple unpacking of line 49 raised ValueError
RECURSIVE ParseFrom(_, _, _)
ParseFrom(entries, i, d) ==
    IF i > Len(entries) THEN [ok |-> TRUE, dict |-> d]
    ELSE LET parts == SplitOnce(entries[i], "=")
         IN  IF Len(parts) # 2 THEN [ok |-> FALSE, dict |-> d]
             ELSE ParseFrom(entries, i + 1, DictSet(d, parts[1], parts[2]))

ParseSchemaPaths(s) == ParseFrom(Split(s, ";"), 1, EmptyDict)

(* ---------------- exceptions and results ---------------- *)
\* messages of the engine's errors
EngineMsgs == {"disk I/O error", "unable to open database file"}

NoMainMsg == "at least one schema must be called 'main'"
UnpackMsg == "not enough values to unpack (expected 2, got 1)"
RaiseStrMsg == "exceptions must derive from BaseException"
NoneAttrMsg == "'NoneType' object has no attribute 'interrupt'"

Exc(type, msg) == [type |-> type, msg |-> msg]
NoExc == Exc("", "")

\* the engine's own error classes: sqlite3.Error and its subclasses
EngineTypes == {"sqlite3.Error", "sqlite3.DatabaseError"}
\* what a wrapped body may raise: an engine error or any other Exception
BodyErrors ==
    { Exc(ty, m) : ty \in EngineTypes \cup {"ValueError"}, m \in EngineMsgs }
EngineErrors == { Exc(ty, m) : ty \in EngineTypes, m \in EngineMsgs }
\* isinstance(e, sqlite3.DatabaseError)
IsDatabaseError(x) == x.type = "sqlite3.DatabaseError"
\* isinstance(e, sqlite3.Error)
IsEngineError(x) == x.type \in EngineTypes

\* how an operation ended; value is what it returned, for add_query()
ReturnedValue(op, v) == [op |-> op, kind |-> "return", exc |-> NoExc, value |-> v]
Returned(op) == ReturnedValue(op, "")
Raised(op, x) == [op |-> op, kind |-> "raise", exc |-> x, value |-> ""]
NoResult == [op |-> "", kind |-> "", exc |-> NoExc, value |-> ""]

(* ---------------- the arguments of add_query(), lines 114-120 ---------------- *)
\* Python values that are passed as bindings: None, dicts and lists
PyValue(type, items) == [type |-> type, items |-> items]
PyNone == PyValue("NoneType", <<>>)
EmptyMapping == PyValue("dict", <<>>)
BindingsInputs ==
    { PyNone, EmptyMapping, PyValue("list", <<>>),
      PyValue("dict", <<"x">>), PyValue("list", <<"x">>) }
Sqls == {"select 1", "select ?"}

\* bool(v): None and the empty containers are false
Truth(v) == v.type # "NoneType" /\ Len(v.items) > 0

Query(sql, auto_begin, bindings, abridge_sql_log) ==
    [sql |-> sql, auto_begin |-> auto_begin, bindings |-> bindings,
     abridge_sql_log |-> abridge_sql_log]
NoQuery == Query("", FALSE, PyNone, FALSE)

\* what super().add_query() may return and raise
ExecutorValues == {"(connection, cursor1)", "(connection, cursor2)"}
ExecutorErrors ==
    { Exc(ty, m) : ty \in {"DatabaseException", "RuntimeException"},
                   m \in EngineMsgs }

\* one call of super().add_query(): its arguments and how it ended
ExecutorCall(q, ret, err) == [args |-> q, ret |-> ret, err |-> err]

\* one call of the engine made by an operation; err is what it raised
Call(op, schema, path, sid, err) ==
    [op |-> op, schema |-> schema, path |-> path, sid |-> sid, err |-> err]

(* ---------------- state ---------------- *)
VARIABLES
    credentials,    \* connection.credentials.schema_paths
    state,          \* connection.state
    handle,         \* connection.handle: 0 is None, else a session id
    sessions,       \* the engine: the sessions sqlite3.connect has created
    pc,             \* per thread: the statement it is at
    schema_paths,   \* per thread: the local dict of open()
    local_handle,   \* per thread: the local variable handle of open()
    todo,           \* per thread: the schemas the attach loop has not visited
    e,              \* per thread: the exception an except clause has caught
    result,         \* per thread: how the finished operation ended
    trace,          \* per thread: the engine calls of the current operation
    query,          \* per thread: the arguments add_query() was called with
    executor        \* per thread: the calls super().add_query() has received

vars == <<credentials, state, handle, sessions, pc, schema_paths,
          local_handle, todo, e, result, trace, query, executor>>

calls == <<query, executor>>

conn == <<credentials, state, handle>>
locals == <<schema_paths, local_handle, todo, e>>

Init ==
    /\ credentials \in SchemaPathsInputs
    /\ state = "init"
    /\ handle = 0
    /\ sessions = <<>>
    /\ pc = [t \in Threads |-> "idle"]
    /\ schema_paths = [t \in Threads |-> EmptyDict]
    /\ local_handle = [t \in Threads |-> 0]
    /\ todo = [t \in Threads |-> {}]
    /\ e = [t \in Threads |-> NoExc]
    /\ result = [t \in Threads |-> NoResult]
    /\ trace = [t \in Threads |-> <<>>]
    /\ query = [t \in Threads |-> NoQuery]
    /\ executor = [t \in Threads |-> <<>>]

Goto(t, l) == pc' = [pc EXCEPT ![t] = l]
Finish(t, r) == /\ pc' = [pc EXCEPT ![t] = "done"]
                /\ result' = [result EXCEPT ![t] = r]
Log(t, c) == trace' = [trace EXCEPT ![t] = Append(@, c)]

\* threads that are between the call of open() and sqlite3.connect
Connecting == { u \in Threads : pc[u] \in {"parse", "connect"} }

(* ---------------- open(), lines 40-82 ---------------- *)
\* variant of OpenSkip: the state test of line 41 is missing
OpenSkipReopens(t) ==
    /\ pc[t] = "idle"
    /\ state = "open"
    /\ Len(sessions) + Cardinality(Connecting) < MaxSessions
    /\ Goto(t, "parse")
    /\ UNCHANGED <<calls, conn, sessions, locals, result, trace>>

\* lines 41-43: an open connection is returned as it is
OpenSkip(t) ==
    /\ pc[t] = "idle"
    /\ state = "open"
    /\ Finish(t, Returned("open"))
    /\ UNCHANGED <<calls, conn, sessions, locals, trace>>

\* variant of OpenBegin: a failed connection is not opened again
OpenBeginFailAbsorbing(t) ==
    /\ pc[t] = "idle"
    /\ state # "open"
    /\ Len(sessions) + Cardinality(Connecting) < MaxSessions
    /\ IF state = "fail"
       THEN Finish(t, Raised("open", Exc("FailedToConnectException", "")))
       ELSE Goto(t, "parse") /\ UNCHANGED result
    /\ UNCHANGED <<calls, conn, sessions, locals, trace>>

\* lines 41, 45: any other state goes on to the parse
OpenBegin(t) ==
    /\ pc[t] = "idle"
    /\ state # "open"
    /\ Len(sessions) + Cardinality(Connecting) < MaxSessions
    /\ Goto(t, "parse")
    /\ UNCHANGED <<calls, conn, sessions, locals, result, trace>>

\* lines 47-50: the loop is outside the try, its ValueError reaches the caller
OpenParse(t) ==
    /\ pc[t] = "parse"
    /\ LET p == ParseSchemaPaths(credentials)
       IN  IF p.ok
           THEN /\ schema_paths' = [schema_paths EXCEPT ![t] = p.dict]
                /\ Goto(t, "connect")
                /\ UNCHANGED result
           ELSE /\ Finish(t, Raised("open", Exc("ValueError", UnpackMsg)))
                /\ UNCHANGED schema_paths
    /\ UNCHANGED <<calls, conn, sessions, local_handle, todo, e, trace>>

\* lines 53-54: sqlite3.connect(schema_paths['main']) succeeds
OpenConnect(t) ==
    /\ pc[t] = "connect"
    /\ Main \in DOMAIN schema_paths[t]
    /\ LET path == schema_paths[t][Main]
           sid == Len(sessions) + 1
       IN  /\ sessions' = Append(sessions,
                            [path |-> path, attached |-> {}, open |-> TRUE])
           /\ local_handle' = [local_handle EXCEPT ![t] = sid]
           /\ Log(t, Call("connect", Main, path, sid, NoExc))
    /\ Goto(t, "cursor")
    /\ UNCHANGED <<calls, conn, schema_paths, todo, e, result>>

\* lines 53-54, 72: sqlite3.connect raises sqlite3.Error
OpenConnectError(t) ==
    /\ pc[t] = "connect"
    /\ Main \in DOMAIN schema_paths[t]
    /\ \E x \in EngineErrors :
          /\ e' = [e EXCEPT ![t] = x]
          /\ Log(t, Call("connect", Main, schema_paths[t][Main], 0, x))
    /\ Goto(t, "except_engine")
    /\ UNCHANGED <<calls, conn, sessions, schema_paths, local_handle, todo, result>>

\* variant of OpenNoMain: the engine is tried before main is looked up
OpenNoMainAfterConnect(t) ==
    /\ pc[t] = "connect"
    /\ Main \notin DOMAIN schema_paths[t]
    /\ e' = [e EXCEPT ![t] = Exc("FailedToConnectException", NoMainMsg)]
    /\ Log(t, Call("connect", Main, <<>>, 0, NoExc))
    /\ Goto(t, "except_other")
    /\ UNCHANGED <<calls, conn, sessions, schema_paths, local_handle, todo, result>>

\* lines 55-56, 80: FailedToConnectException is raised inside the try; it is
\* not an sqlite3.Error, so the second except clause catches it
OpenNoMain(t) ==
    /\ pc[t] = "connect"
    /\ Main \notin DOMAIN schema_paths[t]
    /\ e' = [e EXCEPT ![t] = Exc("FailedToConnectException", NoMainMsg)]
    /\ Goto(t, "except_other")
    /\ UNCHANGED <<calls, conn, sessions, schema_paths, local_handle, todo, result, trace>>

\* lines 58, 60: the cursor, and the set the attach loop iterates over
OpenCursor(t) ==
    /\ pc[t] = "cursor"
    /\ todo' = [todo EXCEPT ![t] = (DOMAIN schema_paths[t]) \ {Main}]
    /\ Log(t, Call("cursor", <<>>, <<>>, local_handle[t], NoExc))
    /\ Goto(t, "attach")
    /\ UNCHANGED <<calls, conn, sessions, schema_paths, local_handle, e, result>>

\* lines 60-62: one iteration, the attach statement succeeds
OpenAttach(t) ==
    /\ pc[t] = "attach"
    /\ \E schema \in todo[t] :
          LET path == schema_paths[t][schema]
              sid == local_handle[t]
          IN  /\ sessions' = [sessions EXCEPT ![sid].attached =
                                  @ \cup {<<schema, path>>}]
              /\ todo' = [todo EXCEPT ![t] = @ \ {schema}]
              /\ Log(t, Call("attach", schema, path, sid, NoExc))
    /\ UNCHANGED <<calls, conn, pc, schema_paths, local_handle, e, result>>

\* variant of OpenAttachError: the error of the attach is swallowed and the
\* loop goes on
OpenAttachErrorSwallowed(t) ==
    /\ pc[t] = "attach"
    /\ \E schema \in todo[t], x \in EngineErrors :
          /\ todo' = [todo EXCEPT ![t] = @ \ {schema}]
          /\ Log(t, Call("attach", schema, schema_paths[t][schema],
                         local_handle[t], x))
    /\ UNCHANGED <<calls, conn, sessions, pc, schema_paths, local_handle, e, result>>

\* lines 60-62, 72: one iteration, the attach statement raises sqlite3.Error
OpenAttachError(t) ==
    /\ pc[t] = "attach"
    /\ \E schema \in todo[t], x \in EngineErrors :
          /\ e' = [e EXCEPT ![t] = x]
          /\ Log(t, Call("attach", schema, schema_paths[t][schema],
                         local_handle[t], x))
    /\ Goto(t, "except_engine")
    /\ UNCHANGED <<calls, conn, sessions, schema_paths, local_handle, todo, result>>

\* line 68, reached when the loop is over
OpenSetState(t) ==
    /\ pc[t] = "attach"
    /\ todo[t] = {}
    /\ state' = "open"
    /\ Goto(t, "set_handle")
    /\ UNCHANGED <<calls, credentials, handle, sessions, locals, result, trace>>

\* variant of OpenSetHandle: the assignment of line 69 is missing
OpenSetHandleForgotten(t) ==
    /\ pc[t] = "set_handle"
    /\ Finish(t, Returned("open"))
    /\ UNCHANGED <<calls, conn, sessions, locals, trace>>

\* lines 69-71
OpenSetHandle(t) ==
    /\ pc[t] = "set_handle"
    /\ handle' = local_handle[t]
    /\ Finish(t, Returned("open"))
    /\ UNCHANGED <<calls, credentials, state, sessions, locals, trace>>

\* variant of OpenFailHandle: the session of the failed attempt is closed
OpenFailHandleCloses(t) ==
    /\ pc[t] = "except_engine"
    /\ handle' = 0
    /\ sessions' = IF local_handle[t] = 0 THEN sessions
                   ELSE [sessions EXCEPT ![local_handle[t]].open = FALSE]
    /\ Goto(t, "fail_state")
    /\ UNCHANGED <<calls, credentials, state, locals, result, trace>>

\* lines 72-76: except sqlite3.Error, the handle is dropped
OpenFailHandle(t) ==
    /\ pc[t] = "except_engine"
    /\ handle' = 0
    /\ Goto(t, "fail_state")
    /\ UNCHANGED <<calls, credentials, state, sessions, locals, result, trace>>

\* variant of OpenFailState: the assignment of line 77 is missing
OpenFailStateForgotten(t) ==
    /\ pc[t] = "fail_state"
    /\ Finish(t, Raised("open", Exc("FailedToConnectException", e[t].msg)))
    /\ UNCHANGED <<calls, conn, sessions, locals, trace>>

\* lines 77-79
OpenFailState(t) ==
    /\ pc[t] = "fail_state"
    /\ state' = "fail"
    /\ Finish(t, Raised("open", Exc("FailedToConnectException", e[t].msg)))
    /\ UNCHANGED <<calls, credentials, handle, sessions, locals, trace>>

\* lines 80-82: except Exception; "raise str(e)" raises TypeError, since a
\* str is not an exception
OpenExceptOther(t) ==
    /\ pc[t] = "except_other"
    /\ Finish(t, Raised("open", Exc("TypeError", RaiseStrMsg)))
    /\ UNCHANGED <<calls, conn, sessions, locals, trace>>

(* ---------------- cancel(), lines 90-98 ---------------- *)
\* line 95 on a connection without handle: None.interrupt is an
\* AttributeError, which "except sqlite3.Error" does not catch
CancelNoHandle(t) ==
    /\ pc[t] = "idle"
    /\ handle = 0
    /\ Finish(t, Raised("cancel", Exc("AttributeError", NoneAttrMsg)))
    /\ UNCHANGED <<calls, conn, sessions, locals, trace>>

\* variant of CancelInterrupt: the interrupted handle is dropped
CancelInterruptDropsHandle(t) ==
    /\ pc[t] = "idle"
    /\ handle # 0
    /\ \E x \in {NoExc} \cup EngineErrors :
          Log(t, Call("interrupt", <<>>, <<>>, handle, x))
    /\ handle' = 0
    /\ Finish(t, Returned("cancel"))
    /\ UNCHANGED <<calls, credentials, state, sessions, locals>>

\* lines 94-98: interrupt() returns, or raises sqlite3.Error which is swallowed
CancelInterrupt(t) ==
    /\ pc[t] = "idle"
    /\ handle # 0
    /\ \E x \in {NoExc} \cup EngineErrors :
          Log(t, Call("interrupt", <<>>, <<>>, handle, x))
    /\ Finish(t, Returned("cancel"))
    /\ UNCHANGED <<calls, conn, sessions, locals>>

(* ---------------- exception_handler(), lines 100-112 ---------------- *)
\* lines 102-103: the scope is entered and the wrapped body starts
HandlerEnter(t) ==
    /\ pc[t] = "idle"
    /\ Goto(t, "body")
    /\ UNCHANGED <<calls, conn, sessions, locals, result, trace>>

\* line 103: the body completes, the scope is left without release
HandlerBodyReturns(t) ==
    /\ pc[t] = "body"
    /\ Finish(t, Returned("exception_handler"))
    /\ UNCHANGED <<calls, conn, sessions, locals, trace>>

\* line 103: the body raises; the except clauses of lines 104 and 108 are
\* tried in order
HandlerBodyRaises(t) ==
    /\ pc[t] = "body"
    /\ \E x \in BodyErrors :
          /\ e' = [e EXCEPT ![t] = x]
          /\ Goto(t, IF IsDatabaseError(x)
                     THEN "except_database" ELSE "except_exception")
    /\ UNCHANGED <<calls, conn, sessions, schema_paths, local_handle, todo, result, trace>>

\* lines 104-105: self.release() returns, or raises out of the except clause
HandlerDatabaseRelease(t) ==
    /\ pc[t] = "except_database"
    /\ \/ /\ Log(t, Call("release", <<>>, <<>>, handle, NoExc))
          /\ Goto(t, "raise_database")
          /\ UNCHANGED result
       \/ \E x \in EngineErrors :
             /\ Log(t, Call("release", <<>>, <<>>, handle, x))
             /\ Finish(t, Raised("exception_handler", x))
    /\ UNCHANGED <<calls, conn, sessions, locals>>

\* lines 106-107
HandlerDatabaseRaise(t) ==
    /\ pc[t] = "raise_database"
    /\ Finish(t, Raised("exception_handler",
                        Exc("DatabaseException", e[t].msg)))
    /\ UNCHANGED <<calls, conn, sessions, locals, trace>>

\* variant of HandlerExceptionRelease: the release of line 111 is missing
HandlerExceptionNoRelease(t) ==
    /\ pc[t] = "except_exception"
    /\ Goto(t, "raise_runtime")
    /\ UNCHANGED <<calls, conn, sessions, locals, result, trace>>

\* lines 108-111
HandlerExceptionRelease(t) ==
    /\ pc[t] = "except_exception"
    /\ \/ /\ Log(t, Call("release", <<>>, <<>>, handle, NoExc))
          /\ Goto(t, "raise_runtime")
          /\ UNCHANGED result
       \/ \E x \in EngineErrors :
             /\ Log(t, Call("release", <<>>, <<>>, handle, x))
             /\ Finish(t, Raised("exception_handler", x))
    /\ UNCHANGED <<calls, conn, sessions, locals>>

\* line 112
HandlerExceptionRaise(t) ==
    /\ pc[t] = "raise_runtime"
    /\ Finish(t, Raised("exception_handler",
                        Exc("RuntimeException", e[t].msg)))
    /\ UNCHANGED <<calls, conn, sessions, locals, trace>>

(* ---------------- add_query(), lines 114-128 ---------------- *)
\* variant of Normalize: only None is replaced
NormalizeNoneOnly(bindings) ==
    IF bindings.type = "NoneType" THEN EmptyMapping ELSE bindings

\* lines 125-126: "if not bindings: bindings = {}"
Normalize(bindings) == IF ~Truth(bindings) THEN EmptyMapping ELSE bindings

\* lines 114-128: the bindings are normalized and super().add_query() is
\* called with the four arguments as keywords
AddQuery(t) ==
    /\ pc[t] = "idle"
    /\ \E sql \in Sqls, auto_begin \in BOOLEAN, bindings \in BindingsInputs,
          abridge_sql_log \in BOOLEAN :
          /\ query' = [query EXCEPT ![t] =
                           Query(sql, auto_begin, bindings, abridge_sql_log)]
          /\ executor' = [executor EXCEPT ![t] = Append(@,
                ExecutorCall(Query(sql, auto_begin, Normalize(bindings),
                                   abridge_sql_log), "", NoExc))]
    /\ Goto(t, "executor")
    /\ UNCHANGED <<conn, sessions, locals, result, trace>>

\* line 128: super().add_query() returns and its value is returned
ExecutorReturns(t) ==
    /\ pc[t] = "executor"
    /\ \E v \in ExecutorValues :
          /\ executor' = [executor EXCEPT ![t][Len(executor[t])].ret = v]
          /\ Finish(t, ReturnedValue("add_query", v))
    /\ UNCHANGED <<query, conn, sessions, locals, trace>>

\* line 128: super().add_query() raises and nothing catches it
ExecutorRaises(t) ==
    /\ pc[t] = "executor"
    /\ \E x \in ExecutorErrors :
          /\ executor' = [executor EXCEPT ![t][Len(executor[t])].err = x]
          /\ Finish(t, Raised("add_query", x))
    /\ UNCHANGED <<query, conn, sessions, locals, trace>>

(* ---------------- close ---------------- *)
\* the close operation of the data model: state closed, handle released
Close(t) ==
    /\ pc[t] = "idle"
    /\ state' = "closed"
    /\ handle' = 0
    /\ sessions' = IF handle = 0 THEN sessions
                   ELSE [sessions EXCEPT ![handle].open = FALSE]
    /\ Finish(t, Returned("close"))
    /\ UNCHANGED <<calls, credentials, locals, trace>>

(* ---------------- the caller ---------------- *)
\* the caller has seen the outcome; the frame of the operation is gone
Return(t) ==
    /\ pc[t] = "done"
    /\ pc' = [pc EXCEPT ![t] = "idle"]
    /\ result' = [result EXCEPT ![t] = NoResult]
    /\ trace' = [trace EXCEPT ![t] = <<>>]
    /\ schema_paths' = [schema_paths EXCEPT ![t] = EmptyDict]
    /\ local_handle' = [local_handle EXCEPT ![t] = 0]
    /\ todo' = [todo EXCEPT ![t] = {}]
    /\ e' = [e EXCEPT ![t] = NoExc]
    /\ query' = [query EXCEPT ![t] = NoQuery]
    /\ executor' = [executor EXCEPT ![t] = <<>>]
    /\ UNCHANGED <<conn, sessions>>

Step(t) ==
    \/ OpenSkip(t)
    \/ OpenBegin(t)
    \/ OpenParse(t)
    \/ OpenConnect(t)
    \/ OpenConnectError(t)
    \/ OpenNoMain(t)
    \/ OpenCursor(t)
    \/ OpenAttach(t)
    \/ OpenAttachError(t)
    \/ OpenSetState(t)
    \/ OpenSetHandle(t)
    \/ OpenFailHandle(t)
    \/ OpenFailState(t)
    \/ OpenExceptOther(t)
    \/ CancelNoHandle(t)
    \/ CancelInterrupt(t)
    \/ HandlerEnter(t)
    \/ HandlerBodyReturns(t)
    \/ HandlerBodyRaises(t)
    \/ HandlerDatabaseRelease(t)
    \/ HandlerDatabaseRaise(t)
    \/ HandlerExceptionRelease(t)
    \/ HandlerExceptionRaise(t)
    \/ Close(t)
    \/ Return(t)

\* the operations of the threads interleave statement by statement
NextConcurrent == \E t \in Threads : Step(t)

\* the caller serializes the operations: one runs to its end before the next
Serial(t) == \A u \in Threads \ {t} : pc[u] = "idle"

Next ==
    \E t \in Threads :
        \/ Serial(t) /\ OpenSkip(t)
        \/ Serial(t) /\ OpenBegin(t)
        \/ Serial(t) /\ OpenParse(t)
        \/ Serial(t) /\ OpenConnect(t)
        \/ Serial(t) /\ OpenConnectError(t)
        \/ Serial(t) /\ OpenNoMain(t)
        \/ Serial(t) /\ OpenCursor(t)
        \/ Serial(t) /\ OpenAttach(t)
        \/ Serial(t) /\ OpenAttachError(t)
        \/ Serial(t) /\ OpenSetState(t)
        \/ Serial(t) /\ OpenSetHandle(t)
        \/ Serial(t) /\ OpenFailHandle(t)
        \/ Serial(t) /\ OpenFailState(t)
        \/ Serial(t) /\ OpenExceptOther(t)
        \/ Serial(t) /\ CancelNoHandle(t)
        \/ Serial(t) /\ CancelInterrupt(t)
        \/ Serial(t) /\ HandlerEnter(t)
        \/ Serial(t) /\ HandlerBodyReturns(t)
        \/ Serial(t) /\ HandlerBodyRaises(t)
        \/ Serial(t) /\ HandlerDatabaseRelease(t)
        \/ Serial(t) /\ HandlerDatabaseRaise(t)
        \/ Serial(t) /\ HandlerExceptionRelease(t)
        \/ Serial(t) /\ HandlerExceptionRaise(t)
        \/ Serial(t) /\ Close(t)
        \/ Serial(t) /\ Return(t)

Spec == Init /\ [][Next]_vars

\* the configurations the concurrent runs start from
ConcurrentInputs ==
    { Main \o <<"=">> \o <<"a">>,
      Logs \o <<"=">> \o <<"b">>,
      Join(<<Main \o <<"=">> \o <<"a">>, Logs \o <<"=">> \o <<"b">>>>, ";") }

InitConcurrent == Init /\ credentials \in ConcurrentInputs

SpecConcurrent == InitConcurrent /\ [][NextConcurrent]_vars

\* a caller that calls open() again and again; a thread that is inside
\* open() runs on, the calls are synchronous
NextRetry ==
    \E t \in Threads :
        \/ Serial(t) /\ OpenSkip(t)
        \/ Serial(t) /\ OpenBegin(t)
        \/ Serial(t) /\ OpenParse(t)
        \/ Serial(t) /\ OpenConnect(t)
        \/ Serial(t) /\ OpenConnectError(t)
        \/ Serial(t) /\ OpenNoMain(t)
        \/ Serial(t) /\ OpenCursor(t)
        \/ Serial(t) /\ OpenAttach(t)
        \/ Serial(t) /\ OpenAttachError(t)
        \/ Serial(t) /\ OpenSetState(t)
        \/ Serial(t) /\ OpenSetHandle(t)
        \/ Serial(t) /\ OpenFailHandle(t)
        \/ Serial(t) /\ OpenFailState(t)
        \/ Serial(t) /\ OpenExceptOther(t)
        \/ Serial(t) /\ Return(t)

Running(t) == pc[t] \notin {"idle", "done"} /\ Step(t)

SpecRetry ==
    InitConcurrent /\ [][NextRetry]_vars /\ \A t \in Threads : WF_vars(Running(t))

\* add_query() alone, one call after the other
NextAddQuery ==
    \E t \in Threads :
        \/ Serial(t) /\ AddQuery(t)
        \/ Serial(t) /\ ExecutorReturns(t)
        \/ Serial(t) /\ ExecutorRaises(t)
        \/ Serial(t) /\ Return(t)

SpecAddQuery == InitConcurrent /\ [][NextAddQuery]_vars

\* the parse of open() alone, over strings that also give main a path with '='
ParseEntries == Entries \cup { Main \o <<"=">> \o <<"f", "=", "g">> }
ParseInputs ==
    { Join(es, ";") :
        es \in UNION { [1..n -> ParseEntries] : n \in 1..MaxEntries } }

InitParse ==
    /\ credentials \in ParseInputs
    /\ state = "init"
    /\ handle = 0
    /\ sessions = <<>>
    /\ pc = [t \in Threads |-> "idle"]
    /\ schema_paths = [t \in Threads |-> EmptyDict]
    /\ local_handle = [t \in Threads |-> 0]
    /\ todo = [t \in Threads |-> {}]
    /\ e = [t \in Threads |-> NoExc]
    /\ result = [t \in Threads |-> NoResult]
    /\ trace = [t \in Threads |-> <<>>]
    /\ query = [t \in Threads |-> NoQuery]
    /\ executor = [t \in Threads |-> <<>>]

NextParse ==
    \E t \in Threads :
        \/ Serial(t) /\ OpenBegin(t)
        \/ Serial(t) /\ OpenParse(t)
        \/ Serial(t) /\ Return(t)

SpecParse == InitParse /\ [][NextParse]_vars

(* ================= properties ================= *)
(* ---- what the schema_paths string declares, read off the string ---- *)
\* the positions that delimit the entries: the ';' and the two ends
Delims(s) == { i \in 1..Len(s) : s[i] = ";" } \cup {0, Len(s) + 1}
\* the delimiter of D with exactly k delimiters before it
NthDelim(D, k) == CHOOSE x \in D : Cardinality({ y \in D : y < x }) = k
EntriesOf(s) ==
    LET D == Delims(s)
    IN  [k \in 1..(Cardinality(D) - 1) |->
            SubSeq(s, NthDelim(D, k - 1) + 1, NthDelim(D, k) - 1)]
HasEq(en) == \E i \in 1..Len(en) : en[i] = "="
\* the position of the first '=' of an entry that has one
EqAt(en) == CHOOSE i \in 1..Len(en) :
                en[i] = "=" /\ \A j \in 1..(i - 1) : en[j] # "="
NameOf(en) == IF HasEq(en) THEN SubSeq(en, 1, EqAt(en) - 1) ELSE en
PathOf(en) == SubSeq(en, EqAt(en) + 1, Len(en))
WellFormedEntry(en) == HasEq(en) /\ NameOf(en) # <<>>
AllWellFormed(s) ==
    LET es == EntriesOf(s) IN \A i \in 1..Len(es) : WellFormedEntry(es[i])
DeclaredNames(s) ==
    LET es == EntriesOf(s) IN { NameOf(es[i]) : i \in 1..Len(es) }
\* the path of the last entry declared under the name
DeclaredPath(s, name) ==
    LET es == EntriesOf(s)
        idx == { i \in 1..Len(es) : NameOf(es[i]) = name }
        k == CHOOSE i \in idx : \A j \in idx : j <= i
    IN  PathOf(es[k])

(* ---- what an operation did ---- *)
Completed == \A t \in Threads : pc[t] \in {"idle", "done"}
Ended(t, op) == pc[t] = "done" /\ result[t].op = op
\* open() ended and had not returned at line 43
OpenRan(t) ==
    /\ Ended(t, "open")
    /\ ~(result[t].kind = "return" /\ trace[t] = <<>>)
CallsOf(t, op) == { i \in 1..Len(trace[t]) : trace[t][i].op = op }
FailedCalls(t, op) == { i \in CallsOf(t, op) : trace[t][i].err # NoExc }
LastCall(t) == trace[t][Len(trace[t])]
\* the engine raised at the connect or at an attach of this open()
EngineRaised(t) ==
    /\ trace[t] # <<>>
    /\ LastCall(t).op \in {"connect", "attach"}
    /\ LastCall(t).err # NoExc

\* C1: with no entry named main (all entries well-formed) an open() that ran
\* ends with FailedToConnectException, state fail and no handle
C1_MissingMainIsConnectionError ==
    \A t \in Threads :
        (OpenRan(t) /\ AllWellFormed(credentials)
                    /\ Main \notin DeclaredNames(credentials))
        => /\ result[t].kind = "raise"
           /\ result[t].exc.type = "FailedToConnectException"
           /\ state = "fail"
           /\ handle = 0

\* C2: when no operation is in progress, the handle is present exactly when
\* the state is open
C2_HandleIffOpen == Completed => (handle # 0 <=> state = "open")

\* C2 witness: a second session is the handle after open, close, open
C2_Witness == Completed /\ state = "open" /\ handle = 2 /\ ~sessions[1].open

\* C3: whenever open() raises, the state is fail and the handle is absent
C3_RaiseLeavesFail ==
    \A t \in Threads :
        (Ended(t, "open") /\ result[t].kind = "raise")
        => (state = "fail" /\ handle = 0)

\* C4: an engine error at the connect or at an attach ends open() with
\* FailedToConnectException carrying the engine's message, state fail and
\* no handle, however many attaches succeeded before
C4_EngineErrorIsConnectionError ==
    \A t \in Threads :
        (Ended(t, "open") /\ EngineRaised(t))
        => /\ result[t] = Raised("open", Exc("FailedToConnectException",
                                             LastCall(t).err.msg))
           /\ state = "fail"
           /\ handle = 0

\* C4 witness: the second attach failed after the first one succeeded
C4_Witness ==
    \E t \in Threads :
        /\ Ended(t, "open") /\ EngineRaised(t)
        /\ LastCall(t).op = "attach"
        /\ Cardinality(CallsOf(t, "attach")) = 2
        /\ Cardinality(FailedCalls(t, "attach")) = 1

\* C5: open() called on an open connection returns at once, leaves handle,
\* state and engine as they are and makes no engine call, also while other
\* threads are inside open()
OpenCalled(t) ==
    /\ pc[t] = "idle"
    /\ \/ pc'[t] = "parse"
       \/ pc'[t] = "done" /\ result'[t].op = "open"
C5_OpenIdempotent ==
    [][\A t \in Threads :
          (OpenCalled(t) /\ state = "open")
          => /\ pc'[t] = "done"
             /\ result'[t] = Returned("open")
             /\ trace'[t] = <<>>
             /\ handle' = handle
             /\ state' = state
             /\ sessions' = sessions]_vars

\* C5 witness: two threads are back from open() on the open connection at the
\* same time, neither made an engine call
C5_Witness ==
    /\ state = "open" /\ handle # 0
    /\ \A t \in Threads :
          Ended(t, "open") /\ result[t].kind = "return" /\ trace[t] = <<>>

\* C6: an open() that leaves the state open has the session of main's path
\* as handle with every other declared name attached on it; an open() in
\* which an attach failed leaves the state fail
C6_NoPartialAttach ==
    \A t \in Threads :
        /\ (Ended(t, "open") /\ state = "open")
           => /\ handle # 0
              /\ sessions[handle].path = DeclaredPath(credentials, Main)
              /\ \A n \in DeclaredNames(credentials) \ {Main} :
                    <<n, DeclaredPath(credentials, n)>>
                        \in sessions[handle].attached
        /\ (Ended(t, "open") /\ FailedCalls(t, "attach") # {})
           => state = "fail"

\* C6 witness: open() attached two schemas and returned
C6_Witness ==
    \E t \in Threads :
        /\ OpenRan(t) /\ state = "open"
        /\ Cardinality(DeclaredNames(credentials) \ {Main}) = 2
        /\ Cardinality(CallsOf(t, "attach")) = 2

\* C7: with an entry that lacks '=' or has an empty name an open() that ran
\* ends with FailedToConnectException and state fail
C7_MalformedIsConnectionError ==
    \A t \in Threads :
        (OpenRan(t) /\ ~AllWellFormed(credentials))
        => /\ result[t].kind = "raise"
           /\ result[t].exc.type = "FailedToConnectException"
           /\ state = "fail"

\* C8: cancel() returns normally in every state of the connection
C8_CancelNeverRaises ==
    \A t \in Threads : Ended(t, "cancel") => result[t].kind = "return"

\* C9: exception_handler has called release once when the body raised and not
\* at all when it did not; the call precedes the raise of the translated error
C9_ReleaseOncePerFailure ==
    \A t \in Threads :
        /\ Ended(t, "exception_handler")
           => Cardinality(CallsOf(t, "release")) = (IF e[t] = NoExc THEN 0 ELSE 1)
        /\ pc[t] \in {"raise_database", "raise_runtime"}
           => Cardinality(CallsOf(t, "release")) = 1

\* C9 witness: the body raised a non-database error, release ran once and the
\* translated error is with the caller
C9_Witness ==
    \E t \in Threads :
        /\ Ended(t, "exception_handler")
        /\ result[t].exc.type = "RuntimeException"
        /\ ~IsDatabaseError(e[t])
        /\ Cardinality(CallsOf(t, "release")) = 1

\* C10: the scope ends with DatabaseException carrying the message when the
\* body raised an engine database error, with RuntimeException carrying the
\* message when it raised anything else, and normally when it raised nothing
C10_ErrorTranslation ==
    \A t \in Threads :
        Ended(t, "exception_handler")
        => result[t] =
              (IF e[t] = NoExc THEN Returned("exception_handler")
               ELSE IF IsDatabaseError(e[t])
               THEN Raised("exception_handler", Exc("DatabaseException", e[t].msg))
               ELSE Raised("exception_handler", Exc("RuntimeException", e[t].msg)))

\* the adapter-neutral error kinds: ConnectionError, DatabaseError,
\* RuntimeError, ConfigError, InternalError
AdapterErrorTypes ==
    {"FailedToConnectException", "DatabaseException", "RuntimeException",
     "ConfigError", "InternalException"}

\* C11: every error that leaves open(), exception_handler() or cancel() is of
\* an adapter-neutral kind
C11_OnlyAdapterErrorsEscape ==
    \A t \in Threads :
        (pc[t] = "done" /\ result[t].kind = "raise"
            /\ result[t].op \in {"open", "exception_handler", "cancel"})
        => result[t].exc.type \in AdapterErrorTypes

\* the string has an entry that the unpacking of the parse loop rejects, or
\* declares no main
Unparsable(s) ==
    LET es == EntriesOf(s) IN \E i \in 1..Len(es) : ~HasEq(es[i])
Invalid(s) == Unparsable(s) \/ Main \notin DeclaredNames(s)
OpenEngineCalls(t) ==
    CallsOf(t, "connect") \cup CallsOf(t, "cursor") \cup CallsOf(t, "attach")

CancelStep(t) ==
    pc[t] = "idle" /\ pc'[t] = "done" /\ result'[t].op = "cancel"
C13_CancelHasNoEffect ==
    [][\A t \in Threads :
          CancelStep(t) => UNCHANGED <<calls, credentials, state, handle, sessions>>]_vars

\* C13 witness: cancel() returned on an open connection with attached schemas
C13_Witness ==
    \E t \in Threads :
        /\ Ended(t, "cancel") /\ result[t].kind = "return"
        /\ state = "open" /\ handle # 0
        /\ sessions[handle].attached # {}

\* C16: no thread ever sees the state open while the handle is absent
C16_OpenStateHasHandle == state = "open" => handle # 0

\* the attaches that an open() has to make: every declared name but main,
\* with the path of its last entry
ExpectedAttaches(s) ==
    { <<n, DeclaredPath(s, n)>> : n \in DeclaredNames(s) \ {Main} }
AttachesOf(t) ==
    { <<trace[t][i].schema, trace[t][i].path>> : i \in CallsOf(t, "attach") }

\* C17: an open() that returned has made one connect and one attach per
\* declared name other than main, none for main, each with the path of the
\* last entry of the name and on the session that is now the handle; the
\* attached set is the same whatever the order of the loop
C17_OneAttachPerSchema ==
    \A t \in Threads :
        (OpenRan(t) /\ result[t].kind = "return")
        => /\ Cardinality(CallsOf(t, "connect")) = 1
           /\ Cardinality(CallsOf(t, "cursor")) = 1
           /\ Cardinality(CallsOf(t, "attach"))
                 = Cardinality(ExpectedAttaches(credentials))
           /\ AttachesOf(t) = ExpectedAttaches(credentials)
           /\ \A i \in CallsOf(t, "attach") :
                 trace[t][i].sid = handle /\ trace[t][i].err = NoExc
           /\ sessions[handle].attached = ExpectedAttaches(credentials)

\* C17 witness: open() returned for a string that declares a secondary name
\* twice with different paths
C17_Witness ==
    \E t \in Threads :
        /\ OpenRan(t) /\ result[t].kind = "return"
        /\ LET es == EntriesOf(credentials)
           IN  \E i, j \in 1..Len(es) :
                  /\ i < j
                  /\ NameOf(es[i]) = NameOf(es[j])
                  /\ NameOf(es[i]) # Main
                  /\ PathOf(es[i]) # PathOf(es[j])

\* an open() whose attach failed: the session it had created
AttachFailed(t) == Ended(t, "open") /\ FailedCalls(t, "attach") # {}
SucceededAttaches(t) ==
    { <<trace[t][i].schema, trace[t][i].path>> :
          i \in CallsOf(t, "attach") \ FailedCalls(t, "attach") }
Abandoned(t) ==
    AttachFailed(t)
    => /\ handle = 0
       /\ sessions[trace[t][1].sid].open
       /\ sessions[trace[t][1].sid].attached = SucceededAttaches(t)
       /\ \A i \in 1..Len(trace[t]) :
             trace[t][i].op \in {"connect", "cursor", "attach"}
\* no connection and no running open() holds the session
Unreferenced(s) == s # handle /\ \A t \in Threads : local_handle[t] # s

\* C19: an open() whose attach failed leaves its session open with the
\* attachments made so far and only drops the handle; a session that nothing
\* refers to is never the handle again and is never touched
C19_AbandonedSession ==
    /\ [](\A t \in Threads : Abandoned(t))
    /\ [][\A s \in 1..Len(sessions) :
             Unreferenced(s) => (handle' # s /\ sessions'[s] = sessions[s])]_vars

\* C19 witness: the connection is open on a second session while the first
\* one, abandoned with a part of the attachments, is still open
C19_Witness ==
    /\ state = "open" /\ handle = 2
    /\ sessions[1].open
    /\ sessions[1].attached # {}
    /\ sessions[1].attached # sessions[2].attached

\* C14: add_query() calls the executor once, with sql, auto_begin and
\* abridge_sql_log as given and with the bindings replaced by an empty mapping
\* when they are None or empty and as given otherwise; it returns what the
\* executor returns and raises what the executor raises
C14_AddQueryNormalizesBindings ==
    \A t \in Threads :
        (pc[t] = "executor" \/ Ended(t, "add_query"))
        => /\ Len(executor[t]) = 1
           /\ LET c == executor[t][1]
                  q == query[t]
              IN  /\ c.args.sql = q.sql
                  /\ c.args.auto_begin = q.auto_begin
                  /\ c.args.abridge_sql_log = q.abridge_sql_log
                  /\ c.args.bindings =
                        (IF q.bindings = PyNone \/ Len(q.bindings.items) = 0
                         THEN EmptyMapping ELSE q.bindings)
                  /\ Ended(t, "add_query")
                     => result[t] = (IF c.err = NoExc
                                     THEN ReturnedValue("add_query", c.ret)
                                     ELSE Raised("add_query", c.err))

\* C14 witness: add_query() was called without bindings, the executor got an
\* empty mapping and its value came back
C14_Witness ==
    \E t \in Threads :
        /\ Ended(t, "add_query") /\ result[t].kind = "return"
        /\ result[t].value \in ExecutorValues
        /\ query[t].bindings = PyNone
        /\ executor[t][1].args.bindings = EmptyMapping

\* C15: for a well-formed string with exactly one main entry the parsed
\* mapping has the declared names as keys and maps main to its declared path
OneMain(s) ==
    LET es == EntriesOf(s)
    IN  Cardinality({ i \in 1..Len(es) : NameOf(es[i]) = Main }) = 1
C15_ParsedMapping ==
    \A t \in Threads :
        (pc[t] = "connect" /\ AllWellFormed(credentials) /\ OneMain(credentials))
        => /\ DOMAIN schema_paths[t] = DeclaredNames(credentials)
           /\ schema_paths[t][Main] = DeclaredPath(credentials, Main)

\* C15 witness: the string was parsed, its main path contains '=' and it
\* declares another name
C15_Witness ==
    \E t \in Threads :
        /\ pc[t] = "connect"
        /\ AllWellFormed(credentials) /\ OneMain(credentials)
        /\ HasEq(schema_paths[t][Main])
        /\ Cardinality(DOMAIN schema_paths[t]) = 2

\* an open() that ran made the connect and no engine call of it failed
EngineAccepted(t) ==
    /\ Ended(t, "open")
    /\ CallsOf(t, "connect") # {}
    /\ \A i \in 1..Len(trace[t]) : trace[t][i].err = NoExc
FreshOpen(t) ==
    EngineAccepted(t)
    => /\ result[t].kind = "return"
       /\ state = "open"
       /\ handle = trace[t][1].sid
       /\ handle = Len(sessions)
AnyOpenCalled == \E t \in Threads : OpenCalled(t)
EngineErrorStep ==
    \E t \in Threads :
        pc[t] \in {"connect", "attach"} /\ pc'[t] = "except_engine"

\* C18: open() called in any state but open runs the sequence from the parse
\* again; when the engine accepts the connect and the attaches the connection
\* is open on the session created last; if open() is called again and again
\* and the engine fails only finitely often, a valid configuration reaches
\* the state open
C18_FailIsNotAbsorbing ==
    /\ [][\A t \in Threads :
             (OpenCalled(t) /\ state # "open") => pc'[t] = "parse"]_vars
    /\ [](\A t \in Threads : FreshOpen(t))
    /\ (/\ ~Invalid(credentials)
        /\ []<><<AnyOpenCalled>>_vars
        /\ <>[][~EngineErrorStep]_vars)
       => <>(state = "open")

\* C18 witness: open() returned on the second session after an attempt whose
\* attach had failed
C18_Witness ==
    \E t \in Threads :
        /\ EngineAccepted(t)
        /\ state = "open" /\ handle = 2
        /\ sessions[1].open

====
